---- MODULE Spec2Model ----
(***************************************************************************)
(* A model of the Markov chain engine of markov-mania                      *)
(* (src/src/core/MarkovChain.ts): training with additive smoothing,        *)
(* generation with fallback resolution, reset and the read accessors.      *)
(*                                                                         *)
(* JavaScript numbers are modelled as exact non-negative rationals         *)
(* <<numerator, denominator>> in lowest terms, so that a probability is    *)
(* what the arithmetic of the code yields without rounding.  A JavaScript  *)
(* Map is modelled as a sequence of entries in insertion order.            *)
(***************************************************************************)
EXTENDS Integers, Sequences, FiniteSets, TLC

VARIABLES
    order,          \* config.order
    smoothing,      \* config.smoothing (a rational)
    temperature,    \* config.temperature (a rational)
    states,         \* this.states: Map<string, MarkovState>, insertion order
    trainingData,   \* this.trainingData: the retained sequences
    callerData,     \* the array object the caller last handed to train()
    aliased,        \* TRUE while this.trainingData is that very object
    history,        \* the training calls made so far (ghost)
    gen,            \* the generation call in progress or last finished
    injected        \* what the current call was handed: its start context
                    \* and the values of Math.random() it consumed (ghost)

vars == <<order, smoothing, temperature, states, trainingData, callerData,
          aliased, history, gen, injected>>

----------------------------------------------------------------------------
(* Bounds of the model *)

MaxOps == 2         \* training calls (train, trainAppend, reset) per behaviour
MaxSeqs == 2        \* sequences per training call
MaxLength == 3      \* largest length handed to generate

----------------------------------------------------------------------------
(* Numbers *)

RECURSIVE GCD(_, _)
GCD(a, b) == IF b = 0 THEN a ELSE GCD(b, a % b)

Rat(n, d) == LET g == GCD(n, d) IN <<n \div g, d \div g>>

Zero == <<0, 1>>
One == <<1, 1>>
FromInt(n) == <<n, 1>>

(* Sums, products and quotients reduce by common factors before they     *)
(* multiply, so that intermediate values stay small                       *)
RAdd(a, b) ==
    LET g == GCD(a[2], b[2])
    IN  Rat(a[1] * (b[2] \div g) + b[1] * (a[2] \div g), (a[2] \div g) * b[2])
RMul(a, b) ==
    LET g1 == GCD(a[1], b[2])
        g2 == GCD(b[1], a[2])
    IN  IF a[1] = 0 \/ b[1] = 0 THEN Zero
        ELSE <<(a[1] \div g1) * (b[1] \div g2), (a[2] \div g2) * (b[2] \div g1)>>
RDiv(a, b) == RMul(a, <<b[2], b[1]>>)
RLeq(a, b) ==
    LET g == GCD(a[2], b[2])
    IN  a[1] * (b[2] \div g) <= b[1] * (a[2] \div g)

(* Math.floor(r * n) for a rational r >= 0 and an integer n *)
FloorMul(r, n) == (r[1] * n) \div r[2]

Max2(a, b) == IF a >= b THEN a ELSE b

----------------------------------------------------------------------------
(* Strings and arrays *)

(* Array.prototype.join("|") *)
RECURSIVE Join(_)
Join(context) ==
    IF Len(context) = 0 THEN ""
    ELSE IF Len(context) = 1 THEN context[1]
    ELSE context[1] \o "|" \o Join(Tail(context))

(* Array.prototype.slice(from, to) with 0-based, end-exclusive indices *)
Slice(arr, from, to) ==
    LET lo == IF from < 0 THEN 0 ELSE from
        hi == IF to > Len(arr) THEN Len(arr) ELSE to
    IN  IF hi <= lo THEN <<>> ELSE SubSeq(arr, lo + 1, hi)

(* arr[i] with a 0-based index; "" stands for undefined, which the code    *)
(* only ever tests for truthiness, as it does the empty string             *)
At(arr, i) == IF i >= 0 /\ i < Len(arr) THEN arr[i + 1] ELSE ""

(* the elements of an array *)
AsSetOf(arr) == { arr[k] : k \in DOMAIN arr }

(* a check that lets every next element pass *)
TruthyAlways(str) == TRUE

Truthy(str) == str # ""

----------------------------------------------------------------------------
(* Map<string, number> and Map<string, MarkovState> in insertion order *)

RECURSIVE KeyIndex(_, _, _)
KeyIndex(entries, key, i) ==
    IF i > Len(entries) THEN 0
    ELSE IF entries[i].element = key THEN i
    ELSE KeyIndex(entries, key, i + 1)

MapHas(entries, key) == KeyIndex(entries, key, 1) # 0

(* transitions.get(key) || 0 *)
MapGetOrZero(entries, key) ==
    LET i == KeyIndex(entries, key, 1)
    IN  IF i = 0 THEN Zero ELSE entries[i].value

(* transitions.set(key, value): an existing key keeps its position *)
MapSet(entries, key, val) ==
    LET i == KeyIndex(entries, key, 1)
    IN  IF i = 0 THEN Append(entries, [element |-> key, value |-> val])
        ELSE [entries EXCEPT ![i].value = val]

RECURSIVE StateIndex(_, _, _)
StateIndex(sts, key, i) ==
    IF i > Len(sts) THEN 0
    ELSE IF sts[i].id = key THEN i
    ELSE StateIndex(sts, key, i + 1)

HasState(sts, key) == StateIndex(sts, key, 1) # 0

RECURSIVE SumValues(_)
SumValues(entries) ==
    IF entries = <<>> THEN Zero
    ELSE RAdd(entries[1].value, SumValues(Tail(entries)))

----------------------------------------------------------------------------
(* Training *)

GetContextKey(sequence, position) ==
    Join(Slice(sequence, position, position + order))

(* UpdateTransition storing a count of 1 instead of incrementing *)
UpdateTransitionNoIncrement(sts, context, nextElement) ==
    LET found == StateIndex(sts, context, 1)
        base == IF found = 0
                THEN Append(sts, [id |-> context, transitions |-> <<>>,
                                  visitCount |-> 0])
                ELSE sts
        j == IF found = 0 THEN Len(base) ELSE found
    IN  [base EXCEPT ![j].transitions = MapSet(@, nextElement, One),
                     ![j].visitCount = @ + 1]

UpdateTransition(sts, context, nextElement) ==
    LET found == StateIndex(sts, context, 1)
        base == IF found = 0
                THEN Append(sts, [id |-> context, transitions |-> <<>>,
                                  visitCount |-> 0])
                ELSE sts
        j == IF found = 0 THEN Len(base) ELSE found
        currentCount == MapGetOrZero(base[j].transitions, nextElement)
        newCount == RAdd(currentCount, One)
    IN  [base EXCEPT ![j].transitions = MapSet(@, nextElement, newCount),
                     ![j].visitCount = @ + 1]

RECURSIVE ProcessFrom(_, _, _)
ProcessFrom(sts, sequence, i) ==
    IF i > Len(sequence) - order THEN sts
    ELSE LET currentContext == GetContextKey(sequence, i)
             nextElement == At(sequence, i + order)
         IN  ProcessFrom(IF Truthy(nextElement)
                         THEN UpdateTransition(sts, currentContext, nextElement)
                         ELSE sts,
                         sequence, i + 1)

(* ProcessSequence starting at the second window *)
ProcessSequenceFromSecond(sts, sequence) == ProcessFrom(sts, sequence, 1)

ProcessSequence(sts, sequence) == ProcessFrom(sts, sequence, 0)

RECURSIVE ProcessAll(_, _)
ProcessAll(sts, sequences) ==
    IF sequences = <<>> THEN sts
    ELSE ProcessAll(ProcessSequence(sts, Head(sequences)), Tail(sequences))

(* NormalizeState with the smoothing left out of the denominator *)
NormalizeStateUnsmoothedTotal(state) ==
    LET totalTransitions == SumValues(state.transitions)
        numElements == Len(state.transitions)
    IN  [state EXCEPT !.transitions =
            [k \in 1..numElements |->
                [element |-> state.transitions[k].element,
                 value |-> RDiv(RAdd(state.transitions[k].value, smoothing),
                                totalTransitions)]]]

NormalizeState(state) ==
    LET totalTransitions == SumValues(state.transitions)
        numElements == Len(state.transitions)
        smoothedTotal == RAdd(totalTransitions,
                              RMul(smoothing, FromInt(numElements)))
    IN  [state EXCEPT !.transitions =
            [k \in 1..numElements |->
                [element |-> state.transitions[k].element,
                 value |-> RDiv(RAdd(state.transitions[k].value, smoothing),
                                smoothedTotal)]]]

NormalizeProbabilities(sts) ==
    [k \in 1..Len(sts) |-> NormalizeState(sts[k])]

----------------------------------------------------------------------------
(* Entropy, in 1/1024 of a bit.  Math.log2 is computed in fixed point:    *)
(* the integer part by doubling, the fraction bit by bit by repeated      *)
(* squaring of a mantissa.                                                *)

FracOne == 2 ^ 10          \* one bit, in the unit of the result
MantissaOne == 2 ^ 12      \* 1.0 as a mantissa

RECURSIVE IntLog2(_, _)
IntLog2(n, d) == IF 2 * n <= d THEN 1 + IntLog2(2 * n, d) ELSE 0

RECURSIVE ScaleUp(_, _)
ScaleUp(n, e) == IF e = 0 THEN n ELSE ScaleUp(2 * n, e - 1)

(* the fraction of log2(x / MantissaOne), 1 <= x / MantissaOne < 2, bit   *)
(* by bit from the weight `bit` downwards                                 *)
RECURSIVE FracLog2(_, _)
FracLog2(x, bit) ==
    IF bit = 0 THEN 0
    ELSE LET sq == (x * x) \div MantissaOne
         IN  IF sq >= 2 * MantissaOne
             THEN bit + FracLog2(sq \div 2, bit \div 2)
             ELSE FracLog2(sq, bit \div 2)

(* -Math.log2(p) for 0 < p <= 1 *)
NegLog2(p) ==
    LET e == IntLog2(p[1], p[2])
        mantissa == (p[2] * MantissaOne) \div ScaleUp(p[1], e)
    IN  e * FracOne + FracLog2(mantissa, FracOne \div 2)

RECURSIVE EntropySum(_)
EntropySum(entries) ==
    IF entries = <<>> THEN 0
    ELSE LET probability == entries[1].value
         IN  (IF probability[1] > 0
              THEN (probability[1] * NegLog2(probability)) \div probability[2]
              ELSE 0)
             + EntropySum(Tail(entries))

CalculateStateEntropy(state) == EntropySum(state.transitions)

HalfBit == FracOne \div 2

----------------------------------------------------------------------------
(* Generation helpers *)

NoState == [id |-> "", transitions |-> <<>>, visitCount |-> -1]

(* this.states.get(key), NoState standing for undefined *)
GetState(sts, key) ==
    LET i == StateIndex(sts, key, 1)
    IN  IF i = 0 THEN NoState ELSE sts[i]

(* context.slice(-i) *)
LastN(context, i) == Slice(context, Len(context) - i, Len(context))

(* the first loop of findFallbackState: shorter contexts, longest first *)
RECURSIVE ShorterContextState(_, _, _)
ShorterContextState(sts, context, i) ==
    IF i <= 0 THEN NoState
    ELSE LET state == GetState(sts, Join(LastN(context, i)))
         IN  IF state # NoState /\ Len(state.transitions) > 0
                /\ CalculateStateEntropy(state) > HalfBit
             THEN state
             ELSE ShorterContextState(sts, context, i - 1)

(* the second loop of findFallbackState: the first state of highest       *)
(* entropy, which has to exceed the initial bestEntropy of 0              *)
RECURSIVE BestEntropyState(_, _, _, _)
BestEntropyState(sts, k, bestState, bestEntropy) ==
    IF k > Len(sts) THEN bestState
    ELSE LET state == sts[k]
             entropy == CalculateStateEntropy(state)
         IN  IF Len(state.transitions) > 0 /\ entropy > bestEntropy
             THEN BestEntropyState(sts, k + 1, state, entropy)
             ELSE BestEntropyState(sts, k + 1, bestState, bestEntropy)

FindFallbackState(sts, context) ==
    LET shorter == ShorterContextState(sts, context, Len(context) - 1)
    IN  IF shorter # NoState THEN shorter
        ELSE BestEntropyState(sts, 1, NoState, 0)

(* Math.pow(probability, 1 / temp) for a temperature 1/n *)
RECURSIVE RPow(_, _)
RPow(p, n) == IF n = 0 THEN One ELSE RMul(p, RPow(p, n - 1))

(* applyTemperature squaring and renormalizing whatever the temperature *)
ApplyTemperatureSharpening(transitions) ==
    LET adjusted == [k \in 1..Len(transitions) |->
                       [element |-> transitions[k].element,
                        value |-> RPow(transitions[k].value, 2)]]
        total == SumValues(adjusted)
    IN  [k \in 1..Len(adjusted) |->
           [element |-> adjusted[k].element,
            value |-> RDiv(adjusted[k].value, total)]]

ApplyTemperature(transitions) ==
    IF temperature = Zero \/ temperature = One THEN transitions
    ELSE LET exponent == temperature[2] \div temperature[1]
             adjusted == [k \in 1..Len(transitions) |->
                            [element |-> transitions[k].element,
                             value |-> RPow(transitions[k].value, exponent)]]
             total == SumValues(adjusted)
         IN  [k \in 1..Len(adjusted) |->
                [element |-> adjusted[k].element,
                 value |-> RDiv(adjusted[k].value, total)]]

(* the selection loop stopping only once the cumulative probability      *)
(* exceeds the draw                                                       *)
RECURSIVE SelectIndexStrict(_, _, _, _)
SelectIndexStrict(transitions, random, k, cumulativeProbability) ==
    IF k > Len(transitions) THEN 0
    ELSE LET cumulative == RAdd(cumulativeProbability, transitions[k].value)
         IN  IF ~RLeq(cumulative, random) THEN k
             ELSE SelectIndexStrict(transitions, random, k + 1, cumulative)

(* the weighted selection loop: the position of the first element whose  *)
(* cumulative probability reaches the draw, 0 when none does             *)
RECURSIVE SelectIndex(_, _, _, _)
SelectIndex(transitions, random, k, cumulativeProbability) ==
    IF k > Len(transitions) THEN 0
    ELSE LET cumulative == RAdd(cumulativeProbability, transitions[k].value)
         IN  IF RLeq(random, cumulative) THEN k
             ELSE SelectIndex(transitions, random, k + 1, cumulative)

(* the same loop written out in generateWithSteps, which starts from ""  *)
SelectLoop(transitions, random) ==
    LET k == SelectIndex(transitions, random, 1, Zero)
    IN  IF k = 0 THEN "" ELSE transitions[k].element

(* Array.from(transitions.keys())[0] || "" *)
FirstKey(transitions) ==
    IF Len(transitions) = 0 THEN "" ELSE transitions[1].element

SelectFromTransitions(transitions, random) ==
    LET k == SelectIndex(transitions, random, 1, Zero)
    IN  IF k # 0 THEN transitions[k].element ELSE FirstKey(transitions)

(* getRandomStartContext returning one token less than the order *)
GetRandomStartContextShort(random1, random2) ==
    LET randomSequence == trainingData[FloorMul(random1, Len(trainingData)) + 1]
        startIndex == FloorMul(random2, Max2(1, Len(randomSequence) - order))
    IN  Slice(randomSequence, startIndex, startIndex + order - 1)

(* getRandomStartContext letting the start index reach the last window *)
GetRandomStartContextToEnd(random1, random2) ==
    LET randomSequence == trainingData[FloorMul(random1, Len(trainingData)) + 1]
        startIndex == FloorMul(random2,
                               Max2(1, Len(randomSequence) - order + 1))
    IN  Slice(randomSequence, startIndex, startIndex + order)

GetRandomStartContext(random1, random2) ==
    LET randomSequence == trainingData[FloorMul(random1, Len(trainingData)) + 1]
        startIndex == FloorMul(random2, Max2(1, Len(randomSequence) - order))
    IN  Slice(randomSequence, startIndex, startIndex + order)

RECURSIVE CountTransitions(_, _)
CountTransitions(sts, k) ==
    IF k > Len(sts) THEN 0
    ELSE Len(sts[k].transitions) + CountTransitions(sts, k + 1)

GetStats(sts) ==
    LET totalTransitions == CountTransitions(sts, 1)
    IN  [totalStates |-> Len(sts),
         totalTransitions |-> totalTransitions,
         averageTransitionsPerState |->
            IF Len(sts) > 0 THEN Rat(totalTransitions, Len(sts)) ELSE Zero]

----------------------------------------------------------------------------
(* Inputs *)

Half == <<1, 2>>
Tenth == <<1, 10>>

(* Training sequences: the end-to-end example of the specification, a     *)
(* sequence that ends in a dead end, and one with an empty token          *)
Corpus == { <<"A", "B", "A", "C">>, <<"A", "B">>, <<"A", "", "B">> }

RECURSIVE ListsUpTo(_, _)
ListsUpTo(S, n) ==
    IF n = 0 THEN { <<>> }
    ELSE LET shorter == ListsUpTo(S, n - 1)
         IN  shorter \cup { Append(l, x) : l \in shorter, x \in S }

TrainLists == ListsUpTo(Corpus, MaxSeqs)

(* trainAppend is handed one sequence at a time, or none *)
AppendLists == ListsUpTo(Corpus, 1)

(* Training inputs of the generation specification *)
GenLists == { <<>>, << <<"A", "B", "A", "C">> >>, << <<"A", "B">> >> }

GenAppendLists == { << <<"A", "B">> >> }

(* Values of Math.random() *)
Draws == { Zero, Half, <<9, 10>> }

(* Start contexts handed to generate *)
StartContexts == { <<"A">>, <<"B", "A">> }

Lengths == (-1)..MaxLength

----------------------------------------------------------------------------
(* State of a generation call *)

(* what a read accessor or an analyzer returned *)
NoResult ==
    [number |-> 0, from |-> "", to |-> "",
     metrics |-> [k \in {"stateEntropy", "chainEntropy", "averageSurprise",
                         "noveltyScore", "predictability"} |->
                    [kind |-> "finite", value |-> 0]],
     stats |-> [totalStates |-> 0, totalTransitions |-> 0,
                averageTransitionsPerState |-> <<0, 1>>],
     states |-> <<>>, cycles |-> <<>>,
     bottlenecks |-> [bottleneck |-> "", severity |-> "",
                      stateCount |-> 0, totalTransitions |-> 0,
                      memoryBytes |-> 0]]

(* the record of a call's inputs is kept where the random source is the  *)
(* subject, and is empty elsewhere                                        *)
NothingInjected == [startContext |-> <<>>, draws |-> <<>>]

IdleGen ==
    [pc |-> "idle", kind |-> "none", length |-> 0, supplied |-> FALSE,
     i |-> 0, currentContext |-> <<>>, sequence |-> <<>>, steps |-> <<>>,
     maxRepetition |-> 0, actualRestartInterval |-> 0,
     enableLongTermPrevention |-> FALSE, attempts |-> 0,
     recentElements |-> <<>>, outcome |-> "none", result |-> NoResult]

Thrown(kind, length, supplied, error) ==
    [IdleGen EXCEPT !.pc = "done", !.kind = kind, !.length = length,
                    !.supplied = supplied, !.outcome = error]

----------------------------------------------------------------------------
(* Operations *)

Init ==
    /\ order \in {1, 2}
    /\ smoothing \in {Zero, Tenth}
    /\ temperature = One
    /\ states = <<>>
    /\ trainingData = <<>>
    /\ callerData = <<>>
    /\ aliased = FALSE
    /\ history = <<>>
    /\ gen = IdleGen
    /\ injected = NothingInjected

InitGen ==
    /\ order \in {1, 2}
    /\ smoothing = Tenth
    /\ temperature \in {One, Half}
    /\ states = <<>>
    /\ trainingData = <<>>
    /\ callerData = <<>>
    /\ aliased = FALSE
    /\ history = <<>>
    /\ gen = IdleGen
    /\ injected = NothingInjected

Callable == gen.pc # "loop" /\ Len(history) < MaxOps

Train(sequences) ==
    /\ Callable
    /\ trainingData' = sequences
    /\ callerData' = sequences
    /\ aliased' = TRUE
    /\ states' = NormalizeProbabilities(ProcessAll(states, sequences))
    /\ history' = Append(history, [op |-> "train", sequences |-> sequences])
    /\ gen' = IdleGen
    /\ UNCHANGED <<order, smoothing, temperature>>

TrainAppend(sequences) ==
    /\ Callable
    /\ trainingData' = trainingData \o sequences
    /\ callerData' = IF aliased THEN callerData \o sequences ELSE callerData
    /\ states' = NormalizeProbabilities(ProcessAll(states, sequences))
    /\ history' = Append(history, [op |-> "trainAppend", sequences |-> sequences])
    /\ gen' = IdleGen
    /\ UNCHANGED <<order, smoothing, temperature, aliased>>

(* reset() clearing the states only *)
ResetKeepingTrainingData ==
    /\ Callable
    /\ states' = <<>>
    /\ aliased' = FALSE
    /\ history' = Append(history, [op |-> "reset", sequences |-> <<>>])
    /\ gen' = IdleGen
    /\ UNCHANGED <<order, smoothing, temperature, callerData, trainingData>>

Reset ==
    /\ Callable
    /\ states' = <<>>
    /\ trainingData' = <<>>
    /\ aliased' = FALSE
    /\ history' = Append(history, [op |-> "reset", sequences |-> <<>>])
    /\ gen' = IdleGen
    /\ UNCHANGED <<order, smoothing, temperature, callerData>>

Entered(kind, length, supplied, context) ==
    [IdleGen EXCEPT !.pc = "loop", !.kind = kind, !.length = length,
                    !.supplied = supplied, !.outcome = "running",
                    !.currentContext = context]

(* generateWithSteps with the start context ignored *)
EnterIgnoringStartContext(length, supplied, startContext, random1, random2) ==
    IF length <= 0
    THEN Thrown("steps", length, supplied, "invalid-argument")
    ELSE IF Len(trainingData) = 0
    THEN Thrown("steps", length, supplied, "no-training-data")
    ELSE Entered("steps", length, supplied,
                 GetRandomStartContext(random1, random2))

(* generateWithSteps choosing the initial context before it checks the    *)
(* length                                                                 *)
EnterCheckingLengthLast(length, supplied, startContext, random1, random2) ==
    IF ~supplied /\ Len(trainingData) = 0
    THEN Thrown("steps", length, supplied, "no-training-data")
    ELSE IF length <= 0
    THEN Thrown("steps", length, supplied, "invalid-argument")
    ELSE Entered("steps", length, supplied,
                 IF supplied THEN startContext
                 ELSE GetRandomStartContext(random1, random2))

(* generateWithSteps up to the loop: the argument check and the choice of *)
(* the initial context, where getRandomStartContext throws when no        *)
(* training data is retained                                              *)
EnterGenerateWithSteps(length, supplied, startContext, random1, random2) ==
    IF length <= 0
    THEN Thrown("steps", length, supplied, "invalid-argument")
    ELSE IF ~supplied /\ Len(trainingData) = 0
    THEN Thrown("steps", length, supplied, "no-training-data")
    ELSE Entered("steps", length, supplied,
                 IF supplied THEN startContext
                 ELSE GetRandomStartContext(random1, random2))

GenerateWithStepsBegin(length, supplied, startContext, random1, random2) ==
    /\ gen.pc = "idle"
    /\ gen' = EnterGenerateWithSteps(length, supplied, startContext,
                                     random1, random2)
    /\ UNCHANGED <<order, smoothing, temperature, states, trainingData,
                   callerData, aliased, history>>

(* what one iteration of the loop of generateWithSteps appends: the step  *)
(* record, or NoStep when the iteration breaks out of the loop            *)
NoStep == [step |-> -1, context |-> "", availableTransitions |-> <<>>,
           selectedElement |-> "", randomValue |-> Zero]

StepOf(i, currentContext, random) ==
    LET contextKey == Join(currentContext)
        state == GetState(states, contextKey)
    IN  IF state = NoState \/ Len(state.transitions) = 0
        THEN LET fallbackState == FindFallbackState(states, currentContext)
                 transitions == ApplyTemperature(fallbackState.transitions)
                 selectedElement == SelectLoop(transitions, random)
             IN  IF fallbackState = NoState \/ selectedElement = ""
                 THEN NoStep
                 ELSE [step |-> i, context |-> contextKey,
                       availableTransitions |-> transitions,
                       selectedElement |-> selectedElement,
                       randomValue |-> random]
        ELSE LET transitions == ApplyTemperature(state.transitions)
             IN  [step |-> i + 1, context |-> contextKey,
                  availableTransitions |-> transitions,
                  selectedElement |->
                      IF SelectLoop(transitions, random) # ""
                      THEN SelectLoop(transitions, random)
                      ELSE FirstKey(transitions),
                  randomValue |-> random]

(* what an iteration of the loop of generateWithSteps makes of the call:  *)
(* the break, or the step appended, the context slid on, and the return   *)
(* after the last iteration                                               *)
Iterated(g, random) ==
    LET taken == StepOf(g.i, g.currentContext, random)
    IN  IF taken = NoStep
        THEN [g EXCEPT !.pc = "done", !.outcome = "returned"]
        ELSE [g EXCEPT
                !.sequence = Append(@, taken.selectedElement),
                !.steps = Append(@, taken),
                !.currentContext =
                    Append(Slice(@, 1, Len(@)), taken.selectedElement),
                !.i = @ + 1,
                !.pc = IF g.i + 1 < g.length THEN "loop" ELSE "done",
                !.outcome = IF g.i + 1 < g.length THEN "running"
                            ELSE "returned"]

(* an iteration that writes the reshaped distribution back into the state *)
(* it was taken from                                                      *)
GenerateWithStepsIterationInPlace(random) ==
    /\ gen.pc = "loop"
    /\ gen.kind = "steps"
    /\ gen' = Iterated(gen, random)
    /\ states' = [k \in DOMAIN states |->
                    IF states[k].id = Join(gen.currentContext)
                    THEN [states[k] EXCEPT !.transitions = ApplyTemperature(@)]
                    ELSE states[k]]
    /\ UNCHANGED <<order, smoothing, temperature, trainingData,
                   callerData, aliased, history>>

(* an iteration that draws from Math.random() behind the injected source *)
GenerateWithStepsIterationHiddenDraw(random) ==
    /\ gen.pc = "loop"
    /\ gen.kind = "steps"
    /\ \E hidden \in Draws : gen' = Iterated(gen, hidden)
    /\ UNCHANGED <<order, smoothing, temperature, states, trainingData,
                   callerData, aliased, history>>

(* one iteration of the loop of generateWithSteps *)
GenerateWithStepsIteration(random) ==
    /\ gen.pc = "loop"
    /\ gen.kind = "steps"
    /\ gen' = Iterated(gen, random)
    /\ UNCHANGED <<order, smoothing, temperature, states, trainingData,
                   callerData, aliased, history>>

maxAttempts == 15

(* the history a long-term check needs *)
minHistory == 8

(* wouldCreateExcessiveRepetition looking one element further back *)
WouldCreateExcessiveRepetitionLate(element, recentElements, maxRepetition) ==
    IF Len(recentElements) < maxRepetition + 1 THEN FALSE
    ELSE \A k \in DOMAIN LastN(recentElements, maxRepetition + 1) :
            LastN(recentElements, maxRepetition + 1)[k] = element

WouldCreateExcessiveRepetition(element, recentElements, maxRepetition) ==
    IF Len(recentElements) < maxRepetition THEN FALSE
    ELSE LET lastElements == IF maxRepetition = 0 THEN recentElements
                             ELSE LastN(recentElements, maxRepetition)
         IN  \A k \in DOMAIN lastElements : lastElements[k] = element

WouldCreateLongTermRepetition(element, sequence, currentIndex) ==
    IF Len(sequence) < minHistory THEN FALSE
    ELSE \E patternLength \in 2..4 :
            /\ currentIndex >= patternLength * 2
            /\ LET candidatePattern ==
                       Append(LastN(sequence, patternLength - 1), element)
               IN  \E i \in 0..(Len(sequence) - patternLength) :
                      /\ Slice(sequence, i, i + patternLength) = candidatePattern
                      /\ currentIndex - i < patternLength * 2

(* restartInterval || Math.min(32, Math.floor(length / 4)); an omitted    *)
(* restartInterval is 0 here                                              *)
ActualRestartInterval(length, restartInterval) ==
    IF restartInterval # 0 THEN restartInterval
    ELSE IF length \div 4 < 32 THEN length \div 4 ELSE 32

(* i % actualRestartInterval === 0 is false for an interval of 0 *)
RestartDue(g) ==
    /\ g.attempts = 0
    /\ g.i > 0
    /\ g.actualRestartInterval > 0
    /\ g.i % g.actualRestartInterval = 0
    /\ g.i < g.length - 4

(* generateWithRepetitionPrevention up to the loop; it has no check of    *)
(* the length, and a loop that has nothing to do returns at once          *)
GenerateWithRepetitionPreventionBegin(length, supplied, startContext, maxRepetition, restartInterval, enableLongTermPrevention, random1, random2) ==
    /\ gen.pc = "idle"
    /\ gen' =
        IF ~supplied /\ Len(trainingData) = 0
        THEN Thrown("rep", length, supplied, "no-training-data")
        ELSE LET entered ==
                   [Entered("rep", length, supplied,
                            IF supplied THEN startContext
                            ELSE GetRandomStartContext(random1, random2))
                    EXCEPT !.maxRepetition = maxRepetition,
                           !.actualRestartInterval =
                               ActualRestartInterval(length, restartInterval),
                           !.enableLongTermPrevention =
                               enableLongTermPrevention]
             IN  IF length > 0 THEN entered
                 ELSE [entered EXCEPT !.pc = "done", !.outcome = "returned"]
    /\ UNCHANGED <<order, smoothing, temperature, states, trainingData,
                   callerData, aliased, history>>

(* the end of an iteration: the push, the window of recent elements, the  *)
(* context sliding on, and the return after the last iteration            *)
Pushed(g, currentContext, selectedElement) ==
    LET recent == Append(g.recentElements, selectedElement)
    IN  [g EXCEPT
           !.sequence = Append(@, selectedElement),
           !.recentElements = IF Len(recent) > g.maxRepetition * 2
                              THEN Tail(recent) ELSE recent,
           !.currentContext =
               Append(Slice(currentContext, 1, Len(currentContext)),
                      selectedElement),
           !.attempts = 0,
           !.i = @ + 1,
           !.pc = IF g.i + 1 < g.length THEN "loop" ELSE "done",
           !.outcome = IF g.i + 1 < g.length THEN "running" ELSE "returned"]

(* one attempt of the while loop with the context it runs in, or, once    *)
(* the attempts are used up, the choice "of the best available"           *)
Attempted(g, currentContext, random) ==
    LET state == GetState(states, Join(currentContext))
        fallbackState == FindFallbackState(states, currentContext)
        source == IF state = NoState \/ Len(state.transitions) = 0
                  THEN fallbackState ELSE state
        returned == [g EXCEPT !.pc = "done", !.outcome = "returned",
                              !.currentContext = currentContext]
    IN  IF g.attempts < maxAttempts
        THEN IF source = NoState THEN returned
             ELSE LET candidateElement ==
                        SelectFromTransitions(
                            ApplyTemperature(source.transitions), random)
                  IN  IF \/ WouldCreateExcessiveRepetition(
                                candidateElement, g.recentElements,
                                g.maxRepetition)
                         \/ /\ g.enableLongTermPrevention
                            /\ WouldCreateLongTermRepetition(
                                   candidateElement, g.sequence, g.i)
                      THEN [g EXCEPT !.attempts = @ + 1,
                                     !.currentContext = currentContext]
                      ELSE IF candidateElement = ""
                      THEN [g EXCEPT !.attempts = maxAttempts,
                                     !.currentContext = currentContext]
                      ELSE Pushed(g, currentContext, candidateElement)
        ELSE IF fallbackState = NoState THEN returned
             ELSE Pushed(g, currentContext,
                         SelectFromTransitions(
                             ApplyTemperature(fallbackState.transitions),
                             random))

(* an attempt in an iteration that keeps its context *)
GenerateWithRepetitionPreventionAttempt(random) ==
    /\ gen.pc = "loop"
    /\ gen.kind = "rep"
    /\ ~RestartDue(gen)
    /\ gen' = Attempted(gen, gen.currentContext, random)
    /\ UNCHANGED <<order, smoothing, temperature, states, trainingData,
                   callerData, aliased, history>>

(* the periodic restart at the top of an iteration, which throws when no  *)
(* training data is retained, and the first attempt after it              *)
GenerateWithRepetitionPreventionRestart(random1, random2, random) ==
    /\ gen.pc = "loop"
    /\ gen.kind = "rep"
    /\ RestartDue(gen)
    /\ gen' =
        IF Len(trainingData) = 0
        THEN [gen EXCEPT !.pc = "done", !.outcome = "no-training-data"]
        ELSE Attempted(gen, GetRandomStartContext(random1, random2), random)
    /\ UNCHANGED <<order, smoothing, temperature, states, trainingData,
                   callerData, aliased, history>>

Next ==
    \/ /\ Callable /\ \E sequences \in TrainLists : Train(sequences)
       /\ UNCHANGED injected
    \/ /\ Callable /\ \E sequences \in AppendLists : TrainAppend(sequences)
       /\ UNCHANGED injected
    \/ /\ Reset
       /\ UNCHANGED injected

Spec == Init /\ [][Next]_vars

NextGen ==
    \/ /\ Callable /\ \E sequences \in GenLists : Train(sequences)
       /\ UNCHANGED injected
    \/ /\ Callable /\ \E sequences \in GenAppendLists : TrainAppend(sequences)
       /\ UNCHANGED injected
    \/ /\ Reset
       /\ UNCHANGED injected
    \/ /\ gen.pc = "idle"
       /\ \E length \in Lengths, random1 \in Draws, random2 \in Draws :
            GenerateWithStepsBegin(length, FALSE, <<>>, random1, random2)
       /\ UNCHANGED injected
    \/ /\ gen.pc = "idle"
       /\ \E length \in Lengths, startContext \in StartContexts :
            GenerateWithStepsBegin(length, TRUE, startContext, Zero, Zero)
       /\ UNCHANGED injected
    \/ /\ gen.pc = "loop"
       /\ \E random \in Draws : GenerateWithStepsIteration(random)
       /\ UNCHANGED injected

SpecGen == InitGen /\ [][NextGen]_vars

----------------------------------------------------------------------------
(* The analyzers (EntropyAnalysis, AutomataAnalysis).  Their numbers are  *)
(* in 1/1024, like the entropy, and carry the kind of a JavaScript        *)
(* number, so that a division by zero shows as NaN or an infinity.        *)

Finite(v) == [kind |-> "finite", value |-> v]
NaN == [kind |-> "NaN", value |-> 0]
Infinity == [kind |-> "Infinity", value |-> 0]
NegInfinity == [kind |-> "-Infinity", value |-> 0]

(* a / b for finite a and b *)
JsDivide(a, b) ==
    IF b # 0 THEN Finite((a * FracOne) \div b)
    ELSE IF a = 0 THEN NaN
    ELSE IF a > 0 THEN Infinity ELSE NegInfinity

(* 1 - x *)
JsOneMinus(x) ==
    IF x.kind = "finite" THEN Finite(FracOne - x.value)
    ELSE IF x.kind = "Infinity" THEN NegInfinity
    ELSE IF x.kind = "-Infinity" THEN Infinity
    ELSE NaN

RECURSIVE TotalEntropy(_, _)
TotalEntropy(sts, k) ==
    IF k > Len(sts) THEN 0
    ELSE CalculateStateEntropy(sts[k]) + TotalEntropy(sts, k + 1)

CalculateChainEntropy(sts) ==
    IF Len(sts) = 0 THEN 0 ELSE TotalEntropy(sts, 1) \div Len(sts)

(* the sentinel of calculateTransitionSurprise for an impossible          *)
(* transition                                                             *)
maximumSurprise == FracOne

CalculateTransitionSurprise(sts, from, to) ==
    LET fromState == GetState(sts, from)
        probability == MapGetOrZero(fromState.transitions, to)
    IN  IF fromState = NoState THEN 0
        ELSE IF probability = Zero THEN maximumSurprise
        ELSE NegLog2(probability)

RECURSIVE SurpriseSum(_)
SurpriseSum(entries) ==
    IF entries = <<>> THEN 0
    ELSE NegLog2(entries[1].value) + SurpriseSum(Tail(entries))

RECURSIVE TotalSurprise(_, _)
TotalSurprise(sts, k) ==
    IF k > Len(sts) THEN 0
    ELSE SurpriseSum(sts[k].transitions) + TotalSurprise(sts, k + 1)

(* the divisor of averageTransitionsPerState in calculateNoveltyFromChain *)
noveltyScale == 5

CalculateNoveltyFromChain(sts) ==
    IF Len(sts) = 0 THEN 0
    ELSE LET totalTransitions == CountTransitions(sts, 1)
             scaled == (totalTransitions * FracOne) \div (Len(sts) * noveltyScale)
         IN  IF scaled < FracOne THEN scaled ELSE FracOne

(* Math.log2(n) for an integer n >= 1 *)
Log2OfCount(n) == NegLog2(<<1, n>>)

GetEntropyMetrics(sts) ==
    LET chainEntropy == CalculateChainEntropy(sts)
        transitionCount == CountTransitions(sts, 1)
    IN  [stateEntropy |-> Finite(chainEntropy),
         chainEntropy |-> Finite(chainEntropy),
         averageSurprise |->
            IF transitionCount > 0
            THEN Finite(TotalSurprise(sts, 1) \div transitionCount)
            ELSE Finite(0),
         noveltyScore |-> Finite(CalculateNoveltyFromChain(sts)),
         predictability |->
            JsOneMinus(JsDivide(chainEntropy,
                                Log2OfCount(IF Len(sts) # 0 THEN Len(sts)
                                            ELSE 1)))]

(* entropy < this.entropyThreshold, the threshold being 0.1 *)
entropyThresholdTenths == 1

BelowEntropyThreshold(entropy) == 10 * entropy < entropyThresholdTenths * FracOne

RECURSIVE DeterministicCount(_, _)
DeterministicCount(sts, k) ==
    IF k > Len(sts) THEN 0
    ELSE (IF BelowEntropyThreshold(CalculateStateEntropy(sts[k])) THEN 1 ELSE 0)
         + DeterministicCount(sts, k + 1)

CalculateDeterminismIndex(sts) ==
    IF Len(sts) = 0 THEN 0
    ELSE LET averageEntropy == TotalEntropy(sts, 1) \div Len(sts)
             determinismRatio == (DeterministicCount(sts, 1) * FracOne) \div Len(sts)
         IN  (determinismRatio + (FracOne - averageEntropy)) \div 2

(* the most likely transition of a state: the first of highest           *)
(* probability, "" with probability 0 when there is none                  *)
RECURSIVE MostLikely(_, _, _, _)
MostLikely(entries, k, nextStateId, maxProbability) ==
    IF k > Len(entries) THEN [element |-> nextStateId, value |-> maxProbability]
    ELSE IF ~RLeq(entries[k].value, maxProbability)
    THEN MostLikely(entries, k + 1, entries[k].element, entries[k].value)
    ELSE MostLikely(entries, k + 1, nextStateId, maxProbability)

(* indexOf, 1-based, of an id that is on the path *)
RECURSIVE IndexOf(_, _, _)
IndexOf(path, id, k) ==
    IF path[k] = id THEN k ELSE IndexOf(path, id, k + 1)

NoCycle == [states |-> <<>>, length |-> 0, probability |-> Zero]

(* detectCycleFromState: the walk along the most likely transitions, and  *)
(* what it returns together with the states it has visited                *)
RECURSIVE DetectCycleFromState(_, _, _, _, _)
DetectCycleFromState(sts, currentState, path, visited, totalProbability) ==
    LET cycleFrom(id, probability) ==
            LET cycleStates == SubSeq(path \o <<id>>,
                                      IndexOf(path \o <<id>>, id, 1),
                                      Len(path))
            IN  [states |-> cycleStates, length |-> Len(cycleStates),
                 probability |-> probability]
    IN  IF currentState.id \in AsSetOf(path)
        THEN [cycle |-> cycleFrom(currentState.id, totalProbability),
              visited |-> visited]
        ELSE IF currentState.id \in visited
        THEN [cycle |-> NoCycle, visited |-> visited]
        ELSE LET onPath == Append(path, currentState.id)
                 seen == visited \cup {currentState.id}
                 best == MostLikely(currentState.transitions, 1, "", Zero)
                 nextState == GetState(sts, best.element)
                 last(probability) ==
                     [cycle |-> [states |-> <<currentState.id>>, length |-> 1,
                                 probability |-> probability],
                      visited |-> seen]
             IN  IF best.element = "" THEN last(totalProbability)
                 ELSE IF nextState = NoState
                 THEN last(RMul(totalProbability, best.value))
                 ELSE DetectCycleFromState(sts, nextState, onPath, seen,
                                           RMul(totalProbability, best.value))

(* findCycles keeping the walks that end on a single state *)
RECURSIVE FindCyclesFromKeepingSingles(_, _, _, _)
FindCyclesFromKeepingSingles(sts, k, visited, cycles) ==
    IF k > Len(sts) THEN cycles
    ELSE IF sts[k].id \in visited
    THEN FindCyclesFromKeepingSingles(sts, k + 1, visited, cycles)
    ELSE LET walk == DetectCycleFromState(sts, sts[k], <<>>, visited, One)
         IN  FindCyclesFromKeepingSingles(sts, k + 1, walk.visited,
                            IF walk.cycle # NoCycle
                            THEN Append(cycles, walk.cycle) ELSE cycles)

RECURSIVE FindCyclesFrom(_, _, _, _)
FindCyclesFrom(sts, k, visited, cycles) ==
    IF k > Len(sts) THEN cycles
    ELSE IF sts[k].id \in visited THEN FindCyclesFrom(sts, k + 1, visited, cycles)
    ELSE LET walk == DetectCycleFromState(sts, sts[k], <<>>, visited, One)
         IN  FindCyclesFrom(sts, k + 1, walk.visited,
                            IF walk.cycle # NoCycle /\ walk.cycle.length > 1
                            THEN Append(cycles, walk.cycle) ELSE cycles)

FindCycles(sts) == FindCyclesFrom(sts, 1, {}, <<>>)

(* A call of a read accessor or of an analyzer: it returns its result and *)
(* writes nothing                                                         *)
Returned(kind, result) ==
    [IdleGen EXCEPT !.pc = "done", !.kind = kind, !.outcome = "returned",
                    !.result = result]

Reads(kind, result) ==
    /\ gen.pc = "idle"
    /\ gen' = Returned(kind, result)
    /\ UNCHANGED <<order, smoothing, temperature, states, trainingData,
                   callerData, aliased, history>>

CallGetStats == Reads("getStats", [NoResult EXCEPT !.stats = GetStats(states)])

CallGetStates == Reads("getStates", [NoResult EXCEPT !.states = states])

CallGetEntropyMetrics ==
    Reads("getEntropyMetrics",
          [NoResult EXCEPT !.metrics = GetEntropyMetrics(states)])

CallCalculateTransitionSurprise(from, to) ==
    Reads("calculateTransitionSurprise",
          [NoResult EXCEPT !.from = from, !.to = to,
                           !.number = CalculateTransitionSurprise(states, from, to)])

CallCalculateDeterminismIndex ==
    Reads("calculateDeterminismIndex",
          [NoResult EXCEPT !.number = CalculateDeterminismIndex(states)])

CallFindCycles ==
    Reads("findCycles", [NoResult EXCEPT !.cycles = FindCycles(states)])

(* ComplexityAnalysis.  estimateMemoryUsageFromChain returns megabytes,   *)
(* (stateCount * 200 + totalTransitions * 50) / (1024 * 1024); the model  *)
(* keeps the numerator, the bytes                                         *)
EstimateMemoryBytes(stateCount, totalTransitions) ==
    stateCount * 200 + totalTransitions * 50

(* memoryUsage > 50 * 1024 * 1024, with memoryUsage the megabytes of so   *)
(* many bytes                                                             *)
ExceedsMemoryLimit(bytes) ==
    \/ bytes \div (1024 * 1024) > 50 * 1024 * 1024
    \/ /\ bytes \div (1024 * 1024) = 50 * 1024 * 1024
       /\ bytes % (1024 * 1024) > 0

(* analyzeBottlenecks of a chain with so many states and transitions;     *)
(* avgTransitionsPerState > 50 is totalTransitions > 50 * stateCount      *)
AnalyzeBottlenecks(stateCount, totalTransitions) ==
    LET memoryBytes == EstimateMemoryBytes(stateCount, totalTransitions)
        classified(bottleneck, severity) ==
            [bottleneck |-> bottleneck, severity |-> severity,
             stateCount |-> stateCount, totalTransitions |-> totalTransitions,
             memoryBytes |-> memoryBytes]
    IN  IF stateCount > 100000 THEN classified("state explosion", "high")
        ELSE IF stateCount > 0 /\ totalTransitions > 50 * stateCount
        THEN classified("transition density", "medium")
        ELSE IF ExceedsMemoryLimit(memoryBytes)
        THEN classified("memory usage", "high")
        ELSE IF stateCount > 10000
        THEN classified("moderate complexity", "medium")
        ELSE classified("none", "low")

CallAnalyzeBottlenecks(stateCount, totalTransitions) ==
    Reads("analyzeBottlenecks",
          [NoResult EXCEPT !.bottlenecks =
               AnalyzeBottlenecks(stateCount, totalTransitions)])

(* contexts and tokens asked about *)
Contexts == { "A", "B|C", "Q" }
Tokens == { "B", "Z" }

(* Inputs of the repetition-preventing generation *)
RepLists == { <<>>, << <<"T", "T", "T">> >>,
              << <<"A", "B", "A", "C">>, <<"A", "B", "", "B">> >> }
RepLengths == {0, 9}
RepStartContexts == { <<"A">>, <<"Z">> }
MaxRepetitions == {1, 2}
RestartIntervals == {0, 2}
RepDraws == { Zero, <<9, 10>> }

InitRep ==
    /\ order \in {1, 2}
    /\ smoothing = Tenth
    /\ temperature \in {One, Half}
    /\ states = <<>>
    /\ trainingData = <<>>
    /\ callerData = <<>>
    /\ aliased = FALSE
    /\ history = <<>>
    /\ gen = IdleGen
    /\ injected = NothingInjected

NextRep ==
    \/ /\ Callable /\ Len(history) <= 1
       /\ \E sequences \in RepLists : Train(sequences)
       /\ UNCHANGED injected
    \/ /\ gen.pc = "idle"
       /\ \E length \in 1..MaxLength, startContext \in RepStartContexts :
            GenerateWithStepsBegin(length, TRUE, startContext, Zero, Zero)
       /\ UNCHANGED injected
    \/ /\ gen.pc = "loop"
       /\ \E random \in RepDraws : GenerateWithStepsIteration(random)
       /\ UNCHANGED injected
    \/ /\ gen.pc = "idle"
       /\ \E length \in RepLengths, maxRepetition \in MaxRepetitions,
             restartInterval \in RestartIntervals,
             enableLongTermPrevention \in BOOLEAN,
             random1 \in RepDraws, random2 \in RepDraws :
            GenerateWithRepetitionPreventionBegin(
                length, FALSE, <<>>, maxRepetition, restartInterval,
                enableLongTermPrevention, random1, random2)
       /\ UNCHANGED injected
    \/ /\ gen.pc = "idle"
       /\ \E length \in RepLengths, maxRepetition \in MaxRepetitions,
             restartInterval \in RestartIntervals,
             enableLongTermPrevention \in BOOLEAN,
             startContext \in RepStartContexts :
            GenerateWithRepetitionPreventionBegin(
                length, TRUE, startContext, maxRepetition, restartInterval,
                enableLongTermPrevention, Zero, Zero)
       /\ UNCHANGED injected
    \/ /\ gen.pc = "loop"
       /\ \E random \in RepDraws : GenerateWithRepetitionPreventionAttempt(random)
       /\ UNCHANGED injected
    \/ /\ gen.pc = "loop"
       /\ \E random1 \in RepDraws, random2 \in RepDraws, random \in RepDraws :
            GenerateWithRepetitionPreventionRestart(random1, random2, random)
       /\ UNCHANGED injected
    \/ /\ CallGetStats
       /\ UNCHANGED injected
    \/ /\ CallGetStates
       /\ UNCHANGED injected
    \/ /\ CallGetEntropyMetrics
       /\ UNCHANGED injected
    \/ /\ gen.pc = "idle"
       /\ \E from \in Contexts, to \in Tokens :
            CallCalculateTransitionSurprise(from, to)
       /\ UNCHANGED injected
    \/ /\ CallCalculateDeterminismIndex
       /\ UNCHANGED injected
    \/ /\ CallFindCycles
       /\ UNCHANGED injected

SpecRep == InitRep /\ [][NextRep]_vars

(* Inputs of the analysis specification: a repeated token, a cycle of     *)
(* distinct tokens, a context with three continuations, and tokens that   *)
(* hold the separator of the context key                                  *)
AnaLists == { <<>>, << <<"T", "T", "T">> >>, << <<"A", "B", "C", "A", "B", "C">> >>, << <<"A", "B">>, <<"A", "C">>, <<"A", "D">> >>, << <<"A|B", "C", "X">>, <<"A", "B|C", "Y">> >> }
AnaDraws == { Zero, <<9, 10>> }
AnaStartContexts == { <<"A">>, <<"T", "T">> }

InitAna ==
    /\ order \in {1, 2}
    /\ smoothing = Tenth
    /\ temperature \in {One, Half}
    /\ states = <<>>
    /\ trainingData = <<>>
    /\ callerData = <<>>
    /\ aliased = FALSE
    /\ history = <<>>
    /\ gen = IdleGen
    /\ injected = NothingInjected

NextAna ==
    \/ /\ Callable /\ Len(history) <= 1
       /\ \E sequences \in AnaLists : Train(sequences)
       /\ injected' = NothingInjected
    \/ /\ Callable /\ Len(history) <= 1
       /\ \E sequences \in GenAppendLists : TrainAppend(sequences)
       /\ injected' = NothingInjected
    \/ /\ Reset /\ Len(history) <= 1
       /\ injected' = NothingInjected
    \/ /\ gen.pc = "idle"
       /\ \E length \in 1..MaxLength, random1 \in AnaDraws, random2 \in AnaDraws :
            /\ GenerateWithStepsBegin(length, FALSE, <<>>, random1, random2)
            /\ injected' = [startContext |-> <<>>,
                            draws |-> IF Len(trainingData) = 0 THEN <<>>
                                      ELSE <<random1, random2>>]
    \/ /\ gen.pc = "idle"
       /\ \E length \in 1..MaxLength, startContext \in AnaStartContexts :
            /\ GenerateWithStepsBegin(length, TRUE, startContext, Zero, Zero)
            /\ injected' = [startContext |-> startContext, draws |-> <<>>]
    \/ /\ gen.pc = "loop"
       /\ \E random \in AnaDraws :
            /\ GenerateWithStepsIteration(random)
            /\ injected' = [injected EXCEPT !.draws = Append(@, random)]
    \/ /\ CallGetStats
       /\ UNCHANGED injected
    \/ /\ CallGetStates
       /\ UNCHANGED injected
    \/ /\ CallGetEntropyMetrics
       /\ UNCHANGED injected
    \/ /\ gen.pc = "idle"
       /\ \E from \in Contexts, to \in Tokens :
            CallCalculateTransitionSurprise(from, to)
       /\ UNCHANGED injected
    \/ /\ CallCalculateDeterminismIndex
       /\ UNCHANGED injected
    \/ /\ CallFindCycles
       /\ UNCHANGED injected

SpecAna == InitAna /\ [][NextAna]_vars

(* The bottleneck classifier reads the number of states and the number   *)
(* of transitions of the chain it is given, and nothing else: chains of   *)
(* these sizes are handed to it                                           *)
StateCounts == {0, 1, 3, 5000, 10000, 10001, 50000, 100000, 100001, 200000}
TransitionsPerState == {0, 1, 2, 3, 10, 25, 49, 50, 51, 60, 100}

InitBot ==
    /\ order \in {1, 2}
    /\ smoothing = Tenth
    /\ temperature = One
    /\ states = <<>>
    /\ trainingData = <<>>
    /\ callerData = <<>>
    /\ aliased = FALSE
    /\ history = <<>>
    /\ gen = IdleGen
    /\ injected = NothingInjected

NextBot ==
    /\ \E stateCount \in StateCounts, perState \in TransitionsPerState :
          CallAnalyzeBottlenecks(stateCount, stateCount * perState)
    /\ UNCHANGED injected

SpecBot == InitBot /\ [][NextBot]_vars

----------------------------------------------------------------------------
(* What the claims speak about *)

(* train(sequences) on a freshly constructed chain of the same config *)
TrainFresh(sequences) == NormalizeProbabilities(ProcessAll(<<>>, sequences))

AsSet(seq) == { seq[k] : k \in DOMAIN seq }

StateIds(sts) == { sts[k].id : k \in DOMAIN sts }

(* the states with their transition probabilities, iteration order aside *)
Distributions(sts) ==
    { [id |-> sts[k].id, transitions |-> AsSet(sts[k].transitions)] :
        k \in DOMAIN sts }

(* the same with the visit counts *)
Contents(sts) ==
    { [id |-> sts[k].id, transitions |-> AsSet(sts[k].transitions),
       visitCount |-> sts[k].visitCount] : k \in DOMAIN sts }

(* the positions <<n, i>> (sequence n, 0-based index i) of the windows of  *)
(* `order` tokens that are followed by at least one more token             *)
FollowedWindows(sequences) ==
    UNION { { <<n, i>> : i \in { j \in 0..Len(sequences[n]) :
                                    j + order < Len(sequences[n]) } } :
            n \in DOMAIN sequences }

WindowKey(sequences, w) ==
    Join(SubSeq(sequences[w[1]], w[2] + 1, w[2] + order))

Follower(sequences, w) == sequences[w[1]][w[2] + order + 1]

(* how often `next` follows `context` in the training sequences *)
Observed(sequences, context, next) ==
    Cardinality({ w \in FollowedWindows(sequences) :
                    /\ WindowKey(sequences, w) = context
                    /\ Follower(sequences, w) = next })

Followers(sequences, context) ==
    { Follower(sequences, w) :
        w \in { v \in FollowedWindows(sequences) :
                    WindowKey(sequences, v) = context } }

TrainedOnce == Len(history) = 1 /\ history[1].op = "train"

----------------------------------------------------------------------------
(* C1: after any sequence of train and trainAppend calls with smoothing   *)
(* >= 0, the transition probabilities of every state sum to 1.            *)
C1_ProbabilitiesSumToOne ==
    \A k \in DOMAIN states : SumValues(states[k].transitions) = One

(* a state with two transitions after train followed by trainAppend,      *)
(* under a positive smoothing                                             *)
C1_Witness ==
    /\ Len(history) = 2
    /\ history[1].op = "train"
    /\ history[2].op = "trainAppend"
    /\ history[2].sequences # <<>>
    /\ smoothing # Zero
    /\ \E k \in DOMAIN states : Len(states[k].transitions) = 2

(* C2: train(A) followed by trainAppend(B) on a fresh chain gives the     *)
(* same states and the same transition probabilities as train(A ++ B) on  *)
(* a fresh chain.                                                         *)
C2_AppendEqualsTrainOnConcatenation ==
    ( /\ Len(history) = 2
      /\ history[1].op = "train"
      /\ history[2].op = "trainAppend" )
    => Distributions(states)
         = Distributions(TrainFresh(history[1].sequences
                                      \o history[2].sequences))

(* C3: train(B) on a chain already trained with A yields exactly what     *)
(* train(B) yields on a fresh chain: states, transitions, probabilities   *)
(* and visit counts.                                                      *)
C3_TrainPopulatesFromScratch ==
    ( /\ Len(history) = 2
      /\ history[1].op = "train"
      /\ history[2].op = "train" )
    => Contents(states) = Contents(TrainFresh(history[2].sequences))

(* the statement of C4 for the followers in `counted` of each context *)
FrequenciesOver(counted(_)) ==
    TrainedOnce =>
        \A k \in DOMAIN states :
            LET S == history[1].sequences
                context == states[k].id
                observed == counted(context)
                total == Cardinality({ w \in FollowedWindows(S) :
                                        /\ WindowKey(S, w) = context
                                        /\ Follower(S, w) \in observed })
                denominator == RAdd(FromInt(total),
                                    RMul(smoothing,
                                         FromInt(Cardinality(observed))))
            IN  /\ \A next \in observed :
                     /\ MapHas(states[k].transitions, next)
                     /\ MapGetOrZero(states[k].transitions, next)
                          = RDiv(RAdd(FromInt(Observed(S, context, next)),
                                      smoothing),
                                 denominator)
                /\ \A e \in DOMAIN states[k].transitions :
                     states[k].transitions[e].element \in observed

(* C4 as stated: after train(S) on a fresh chain every observed next      *)
(* token of a state has probability (count + smoothing) / (total +        *)
(* smoothing * k), and a token never observed after the context has no    *)
(* transition entry.                                                      *)
C4_SmoothedFrequencies ==
    FrequenciesOver(LAMBDA context : Followers(history[1].sequences, context))

(* C4 as amended: the same, over the non-empty next tokens: an empty      *)
(* string that follows a context is not counted and gets no entry.        *)
C4_SmoothedFrequenciesOfNonEmpty ==
    FrequenciesOver(LAMBDA context :
                        Followers(history[1].sequences, context) \ {""})

(* a state whose two next tokens were observed a different number of      *)
(* times, under a positive smoothing                                      *)
C4_Witness ==
    /\ TrainedOnce
    /\ smoothing # Zero
    /\ \E k \in DOMAIN states :
          /\ Len(states[k].transitions) = 2
          /\ states[k].transitions[1].value # states[k].transitions[2].value

(* C5 as stated: after train(S) on a fresh chain the states are exactly   *)
(* the windows of `order` tokens that are followed by at least one more   *)
(* token; a sequence no longer than `order` contributes none, and         *)
(* train([]) leaves no state.                                             *)
C5_StatesAreFollowedWindows ==
    TrainedOnce =>
        LET S == history[1].sequences
        IN  StateIds(states) = { WindowKey(S, w) : w \in FollowedWindows(S) }

(* C5 as amended: the windows followed by a non-empty token. *)
C5_StatesAreWindowsWithNonEmptyFollower ==
    TrainedOnce =>
        LET S == history[1].sequences
        IN  /\ StateIds(states)
                 = { WindowKey(S, w) :
                       w \in { v \in FollowedWindows(S) :
                                 Follower(S, v) # "" } }
            /\ ((\A n \in DOMAIN S : Len(S[n]) <= order) => states = <<>>)

(* a sequence no longer than the order trained together with one that     *)
(* contributes states                                                     *)
C5_Witness ==
    /\ TrainedOnce
    /\ \E n \in DOMAIN history[1].sequences :
          Len(history[1].sequences[n]) <= order
    /\ Len(states) >= 2

(* train([]) on a fresh chain *)
C5_WitnessEmpty ==
    TrainedOnce /\ history[1].sequences = <<>> /\ states = <<>>

----------------------------------------------------------------------------
(* Generation calls *)

Finished == gen.pc = "done"

HasTransitions == \E k \in DOMAIN states : Len(states[k].transitions) > 0

(* C6 as stated: generate(length, startContext?) with length > 0 on a     *)
(* chain that retains no training data fails with the no-training-data    *)
(* error, whether or not a start context is supplied.                     *)
C6_NoTrainingDataAlwaysFails ==
    (Finished /\ gen.length > 0 /\ trainingData = <<>>)
        => gen.outcome = "no-training-data"

(* C6 as amended: it fails with the no-training-data error exactly when   *)
(* no start context is supplied; with a start context the call returns.   *)
C6_NoTrainingDataFailsWithoutStartContext ==
    (Finished /\ gen.length > 0 /\ trainingData = <<>>)
        => /\ ~gen.supplied => gen.outcome = "no-training-data"
           /\ gen.supplied => gen.outcome = "returned"

(* the error after a reset of a trained chain *)
C6_Witness ==
    /\ Finished
    /\ gen.length > 0
    /\ ~gen.supplied
    /\ gen.outcome = "no-training-data"
    /\ Len(history) = 2
    /\ history[1].op = "train"
    /\ history[1].sequences # <<>>
    /\ history[2].op = "reset"

(* a call with a start context that returns on a chain without data *)
C6_WitnessSupplied ==
    Finished /\ gen.length > 0 /\ gen.supplied /\ trainingData = <<>>
        /\ gen.outcome = "returned"

(* C7: generate with length <= 0 fails with the invalid-argument error on *)
(* trained and untrained chains alike, and leaves the states and the      *)
(* retained training data unchanged.                                      *)
C7_NonPositiveLengthIsInvalid ==
    [][(gen.pc = "idle" /\ gen'.pc = "done" /\ gen'.length <= 0)
        => /\ gen'.outcome = "invalid-argument"
           /\ states' = states
           /\ trainingData' = trainingData]_vars

(* the error on a trained chain *)
C7_Witness ==
    /\ Finished
    /\ gen.length <= 0
    /\ gen.outcome = "invalid-argument"
    /\ HasTransitions
    /\ trainingData # <<>>

(* the error on a chain that was never trained *)
C7_WitnessUntrained ==
    Finished /\ gen.length <= 0 /\ gen.outcome = "invalid-argument"
        /\ history = <<>>

(* no training data has been supplied since the last reset *)
NothingSinceReset ==
    \E k \in DOMAIN history :
        /\ history[k].op = "reset"
        /\ \A j \in DOMAIN history : j > k => history[j].sequences = <<>>

ZeroStats ==
    [totalStates |-> 0, totalTransitions |-> 0,
     averageTransitionsPerState |-> Zero]

(* C8: after reset(), until train or trainAppend supplies data again,     *)
(* getStats() reports zero states, zero transitions and a zero average,   *)
(* and generate(length > 0) fails with no-training-data.                  *)
C8_ResetClears ==
    NothingSinceReset
        => /\ GetStats(states) = ZeroStats
           /\ (Finished /\ gen.length > 0 /\ ~gen.supplied)
                 => gen.outcome = "no-training-data"

(* generate after the reset of a chain that had states *)
C8_Witness ==
    /\ NothingSinceReset
    /\ history[1].op = "train"
    /\ history[1].sequences # <<>>
    /\ Finished
    /\ gen.length > 0
    /\ gen.outcome = "no-training-data"

(* C9: on a chain that has at least one state with a transition,          *)
(* generate(length) returns exactly `length` tokens for every sequence of *)
(* random draws.                                                          *)
C9_GeneratesRequestedLength ==
    (Finished /\ gen.outcome = "returned" /\ HasTransitions)
        => Len(gen.sequence) = gen.length

(* the tokens learned as continuations: the keys of the transition maps *)
Vocabulary ==
    UNION { { states[k].transitions[j].element :
                j \in DOMAIN states[k].transitions } : k \in DOMAIN states }

(* C10: every token emitted by generate, generateWithSteps or             *)
(* generateWithRepetitionPrevention is a key of some state's transition   *)
(* map and is not the empty token, for any start context and any draws.   *)
C10_EmitsLearnedTokens ==
    \A k \in DOMAIN gen.sequence :
        gen.sequence[k] # "" /\ gen.sequence[k] \in Vocabulary

(* a full-length repetition-preventing generation on a chain trained with *)
(* a sequence that holds an empty token                                   *)
C10_Witness ==
    /\ Finished
    /\ gen.kind = "rep"
    /\ gen.outcome = "returned"
    /\ Len(gen.sequence) = 9
    /\ \E k \in DOMAIN trainingData : "" \in AsSet(trainingData[k])

(* generateWithSteps emitting from a start context it never learned *)
C10_WitnessSteps ==
    /\ Finished
    /\ gen.kind = "steps"
    /\ Len(gen.steps) > 0
    /\ gen.steps[1].context = "Z"

----------------------------------------------------------------------------
(* Deterministic input *)

(* the chain was trained once, fresh, on a single sequence that repeats   *)
(* one token more than `order` times                                      *)
TrainedOnRepetition ==
    /\ TrainedOnce
    /\ Len(history[1].sequences) = 1
    /\ Len(history[1].sequences[1]) > order
    /\ Cardinality(AsSet(history[1].sequences[1])) = 1
    /\ history[1].sequences[1][1] # ""

(* C11: a fresh chain of order k trained on one sequence that repeats a   *)
(* token t more than k times has exactly one state with exactly one       *)
(* transition, to t with probability 1 and entropy 0, and generate(n)     *)
(* returns exactly n tokens, all t, for every n > 0 and every draw.       *)
C11_RepetitionIsDeterministic ==
    TrainedOnRepetition =>
        LET t == history[1].sequences[1][1]
        IN  /\ Len(states) = 1
            /\ states[1].transitions = << [element |-> t, value |-> One] >>
            /\ CalculateStateEntropy(states[1]) = 0
            /\ (Finished /\ gen.kind = "steps" /\ ~gen.supplied)
                 => /\ gen.outcome = "returned"
                    /\ Len(gen.sequence) = gen.length
                    /\ \A k \in DOMAIN gen.sequence : gen.sequence[k] = t

(* generate(3) finished on an order-2 chain trained on T,T,T *)
C11_Witness ==
    /\ TrainedOnRepetition
    /\ order = 2
    /\ Finished
    /\ gen.kind = "steps"
    /\ ~gen.supplied
    /\ Len(gen.sequence) = 3

----------------------------------------------------------------------------
(* Frame *)

(* C12: only train, trainAppend and reset change the chain: every step of *)
(* generate, generateWithSteps and generateWithRepetitionPrevention, and  *)
(* every call of getStats, getStates and of an analyzer, leaves the       *)
(* states (their set, probabilities, visit counts and order) and the      *)
(* retained training data as they were, also when temperature is not 1.   *)
C12_OnlyTrainingMutates ==
    [][history' = history
         => /\ states' = states
            /\ trainingData' = trainingData
            /\ <<order, smoothing, temperature>>' = <<order, smoothing, temperature>>]_vars

(* a repetition-preventing generation that ran to its end on a trained    *)
(* chain with a temperature of 0.5                                        *)
C12_Witness ==
    /\ Finished
    /\ gen.kind = "rep"
    /\ temperature = Half
    /\ HasTransitions
    /\ Len(gen.sequence) >= 6

(* generateWithSteps finished under a temperature of 0.5 *)
C12_WitnessSteps ==
    /\ Finished
    /\ gen.kind = "steps"
    /\ temperature = Half
    /\ Len(gen.steps) = MaxLength

(* findCycles returned on a trained chain *)
C12_WitnessAnalyzer ==
    Finished /\ gen.kind = "findCycles" /\ HasTransitions

----------------------------------------------------------------------------
(* Sampling *)

(* the state a recorded step sampled from is the state of its context, or *)
(* a fallback state when the context has none                             *)
StepSampledFrom(step, state) ==
    IF HasState(states, step.context)
       /\ Len(GetState(states, step.context).transitions) > 0
    THEN state = GetState(states, step.context)
    ELSE state \in AsSet(states)

(* C13: with temperature 1.0 the distribution a generation step samples   *)
(* from is the stored distribution of the state: same tokens, same        *)
(* probabilities, same order.                                             *)
C13_TemperatureOneIsIdentity ==
    temperature = One =>
        \A k \in DOMAIN gen.steps :
            \E j \in DOMAIN states :
                /\ StepSampledFrom(gen.steps[k], states[j])
                /\ gen.steps[k].availableTransitions = states[j].transitions

(* a step that sampled from a non-uniform distribution at temperature 1 *)
C13_Witness ==
    /\ temperature = One
    /\ \E k \in DOMAIN gen.steps :
          /\ Len(gen.steps[k].availableTransitions) = 2
          /\ gen.steps[k].availableTransitions[1].value
               # gen.steps[k].availableTransitions[2].value

----------------------------------------------------------------------------
(* Determinism *)

(* the states and the retained data a chain of this config holds after    *)
(* the first k training calls of a history                                *)
RECURSIVE AfterCalls(_, _)
AfterCalls(calls, k) ==
    IF k = 0 THEN [states |-> <<>>, trainingData |-> <<>>]
    ELSE LET before == AfterCalls(calls, k - 1)
             call == calls[k]
         IN  IF call.op = "reset"
             THEN [states |-> <<>>, trainingData |-> <<>>]
             ELSE [states |->
                     NormalizeProbabilities(ProcessAll(before.states,
                                                       call.sequences)),
                   trainingData |->
                     IF call.op = "train" THEN call.sequences
                     ELSE before.trainingData \o call.sequences]

Rebuilt == AfterCalls(history, Len(history))

(* the context of the k-th recorded step of a call that started at `start` *)
RECURSIVE ContextOfStep(_, _)
ContextOfStep(start, k) ==
    IF k = 1 THEN start
    ELSE LET before == ContextOfStep(start, k - 1)
         IN  Append(Slice(before, 1, Len(before)),
                    gen.steps[k - 1].selectedElement)

----------------------------------------------------------------------------
(* Analyzer metrics *)

(* C15: getEntropyMetrics yields no NaN and no infinity on a chain of 0   *)
(* or 1 states: on the empty chain noveltyScore, chainEntropy and         *)
(* predictability are 0, on a single state predictability is finite.      *)
C15_MetricsOfSmallChains ==
    (gen.kind = "getEntropyMetrics" /\ Len(states) <= 1)
        => /\ gen.result.metrics.predictability.kind = "finite"
           /\ Len(states) = 0
                => /\ gen.result.metrics.noveltyScore = Finite(0)
                   /\ gen.result.metrics.chainEntropy = Finite(0)
                   /\ gen.result.metrics.predictability = Finite(0)

(* the probability the chain assigns to `to` after the context `from` *)
Assigned(from, to) == MapGetOrZero(GetState(states, from).transitions, to)

(* C16: calculateTransitionSurprise(from, to, chain) is the sentinel 1    *)
(* for every pair the chain assigns no probability, whether `from` has a  *)
(* state that lacks `to` or has no state at all, and -log2(p) when the    *)
(* learned probability p is positive.                                     *)
C16_SurpriseOfTransition ==
    gen.kind = "calculateTransitionSurprise"
        => gen.result.number
             = IF Assigned(gen.result.from, gen.result.to) = Zero
               THEN FracOne
               ELSE NegLog2(Assigned(gen.result.from, gen.result.to))

(* C17: calculateDeterminismIndex returns a value between 0 and 1 for     *)
(* every chain; 0 for the empty chain and more than 0.8 for a chain whose *)
(* states each have a single transition.                                  *)
C17_DeterminismIndexInUnitInterval ==
    gen.kind = "calculateDeterminismIndex"
        => /\ 0 <= gen.result.number
           /\ gen.result.number <= FracOne
           /\ Len(states) = 0 => gen.result.number = 0
           /\ (/\ Len(states) > 0
               /\ \A k \in 1..Len(states) : Len(states[k].transitions) = 1)
                  => 10 * gen.result.number > 8 * FracOne

----------------------------------------------------------------------------
(* Cycles *)

(* the chain was trained once, fresh, on a single sequence that goes      *)
(* twice through the same distinct tokens                                  *)
TrainedOnCycle ==
    /\ TrainedOnce
    /\ Len(history[1].sequences) = 1
    /\ LET sequence == history[1].sequences[1]
           period == Len(sequence) \div 2
       IN  /\ period >= 2
           /\ Len(sequence) = 2 * period
           /\ Cardinality(AsSet(sequence)) = period
           /\ "" \notin AsSet(sequence)
           /\ \A k \in 1..period : sequence[k + period] = sequence[k]

(* C18: on an order-1 chain trained on a sequence that cycles through     *)
(* distinct tokens findCycles reports at least one cycle; every cycle it  *)
(* reports has length >= 2, as many states as its length, and a           *)
(* probability above 0.                                                   *)
C18_FindsCycles ==
    gen.kind = "findCycles"
        => /\ (order = 1 /\ TrainedOnCycle) => Len(gen.result.cycles) >= 1
           /\ \A k \in DOMAIN gen.result.cycles :
                  LET cycle == gen.result.cycles[k]
                  IN  /\ cycle.length >= 2
                      /\ Len(cycle.states) = cycle.length
                      /\ cycle.probability # Zero

(* findCycles on the order-1 chain trained on A,B,C,A,B,C: the cycle      *)
(* A,B,C of probability 1                                                  *)
C18_Witness ==
    /\ order = 1
    /\ TrainedOnCycle
    /\ gen.kind = "findCycles"
    /\ gen.result.cycles
         = << [states |-> <<"A", "B", "C">>, length |-> 3,
               probability |-> One] >>

----------------------------------------------------------------------------
(* Context keys *)

WindowTokens(sequences, w) == SubSeq(sequences[w[1]], w[2] + 1, w[2] + order)

(* C19: the serialized context key identifies exactly one state: two      *)
(* different contexts never share a state, whatever the tokens are, the   *)
(* separator character included.                                          *)
C19_KeyIdentifiesOneContext ==
    TrainedOnce =>
        \A v, w \in FollowedWindows(history[1].sequences) :
            (/\ WindowKey(history[1].sequences, v) \in StateIds(states)
             /\ WindowKey(history[1].sequences, v)
                  = WindowKey(history[1].sequences, w))
                => WindowTokens(history[1].sequences, v)
                     = WindowTokens(history[1].sequences, w)

----------------------------------------------------------------------------
(* Inverse-CDF selection *)

(* the positions of a distribution whose cumulative probability, summed   *)
(* in enumeration order, is at least r                                    *)
Reaching(distribution, r) ==
    { k \in DOMAIN distribution :
        RLeq(r, SumValues(SubSeq(distribution, 1, k))) }

(* C20: at each generation step with draw r the emitted token is the      *)
(* first token, in the insertion order of the temperature-adjusted        *)
(* distribution, whose cumulative probability is >= r; a draw of 0 always *)
(* selects the first token.                                               *)
C20_InverseCdfSelection ==
    \A n \in DOMAIN gen.steps :
        LET distribution == gen.steps[n].availableTransitions
            reaching == Reaching(distribution, gen.steps[n].randomValue)
        IN  /\ reaching # {}
            /\ \E k \in reaching :
                  /\ \A j \in reaching : k <= j
                  /\ gen.steps[n].selectedElement = distribution[k].element
            /\ gen.steps[n].randomValue = Zero
                  => gen.steps[n].selectedElement = distribution[1].element

(* a step whose draw equals the cumulative probability of the first of    *)
(* several tokens, and selects it                                         *)
C20_Witness ==
    \E n \in DOMAIN gen.steps :
        /\ Len(gen.steps[n].availableTransitions) > 1
        /\ gen.steps[n].randomValue # Zero
        /\ gen.steps[n].randomValue = gen.steps[n].availableTransitions[1].value
        /\ gen.steps[n].selectedElement
             = gen.steps[n].availableTransitions[1].element

(* a step whose draw passes the first token and selects a later one *)
C20_WitnessLater ==
    \E n \in DOMAIN gen.steps :
        /\ Len(gen.steps[n].availableTransitions) > 1
        /\ gen.steps[n].selectedElement
             # gen.steps[n].availableTransitions[1].element

----------------------------------------------------------------------------
(* Fallback *)

(* the context has no state, or a state without transitions *)
NeedsFallback(context) ==
    \/ ~HasState(states, Join(context))
    \/ Len(GetState(states, Join(context)).transitions) = 0

(* the states with transitions that proper suffixes of the context name *)
SuffixStates(context) ==
    { state \in { GetState(states, Join(LastN(context, i))) :
                    i \in 1..(Len(context) - 1) } :
        state # NoState /\ Len(state.transitions) > 0 }

(* the states of highest entropy *)
MaximumEntropyStates ==
    { state \in AsSet(states) :
        /\ Len(state.transitions) > 0
        /\ \A other \in AsSet(states) :
              CalculateStateEntropy(other) <= CalculateStateEntropy(state) }

(* the start context of the generateWithSteps call under way *)
StartOfCall ==
    IF gen.supplied THEN injected.startContext
    ELSE GetRandomStartContext(injected.draws[1], injected.draws[2])

(* C21: a step whose context has no state, or an empty one, samples from  *)
(* the state of a proper suffix of the context when a suffix names a      *)
(* state with transitions, and from the state of highest entropy only     *)
(* when none does; so generation does not stop on a context one of whose  *)
(* suffixes names such a state.                                           *)
C21_FallbackPrefersSuffix ==
    (gen.kind = "steps" /\ gen.outcome \in {"running", "returned"})
        => /\ \A k \in DOMAIN gen.steps :
                LET context == ContextOfStep(StartOfCall, k)
                    candidates == IF SuffixStates(context) # {}
                                  THEN SuffixStates(context)
                                  ELSE MaximumEntropyStates
                IN  NeedsFallback(context)
                        => \E state \in candidates :
                              gen.steps[k].availableTransitions
                                = ApplyTemperature(state.transitions)
           /\ (Finished /\ Len(gen.steps) < gen.length)
                => SuffixStates(gen.currentContext) = {}

----------------------------------------------------------------------------
(* Repetition prevention *)

(* the last n tokens of a sequence are there and are identical *)
TrailingIdentical(sequence, n) ==
    /\ Len(sequence) >= n
    /\ \A k \in (Len(sequence) - n + 1)..Len(sequence) :
          sequence[k] = sequence[Len(sequence)]

(* a step of generateWithRepetitionPrevention that accepts a candidate    *)
(* inside the retry loop                                                  *)
AcceptedInLoop ==
    /\ gen.kind = "rep"
    /\ gen.pc = "loop"
    /\ gen.attempts < maxAttempts
    /\ Len(gen'.sequence) = Len(gen.sequence) + 1

(* C22 as stated: a candidate is rejected whenever appending it would     *)
(* make the trailing maxRepetition output tokens identical, with at most  *)
(* 15 draws per step, so no token accepted inside the retry loop          *)
(* completes maxRepetition consecutive identical tokens.                  *)
C22_RejectsAtMaxRepetition ==
    [][/\ gen'.attempts <= maxAttempts
       /\ AcceptedInLoop
            => ~TrailingIdentical(gen'.sequence, gen.maxRepetition)]_vars

(* C22 as amended: a candidate is rejected whenever the trailing          *)
(* maxRepetition output tokens are identical to it, that is whenever      *)
(* appending it would make maxRepetition + 1 consecutive identical        *)
(* tokens, with at most 15 draws per step; no token accepted inside the   *)
(* retry loop completes maxRepetition + 1 consecutive identical tokens.   *)
C22_RejectsBeyondMaxRepetition ==
    [][/\ gen'.attempts <= maxAttempts
       /\ AcceptedInLoop
            => ~TrailingIdentical(gen'.sequence, gen.maxRepetition + 1)]_vars

(* a candidate has been rejected, with long-term prevention off, after    *)
(* maxRepetition identical tokens                                         *)
C22_Witness ==
    /\ gen.kind = "rep"
    /\ gen.pc = "loop"
    /\ ~gen.enableLongTermPrevention
    /\ gen.attempts > 0
    /\ gen.attempts < maxAttempts
    /\ TrailingIdentical(gen.sequence, gen.maxRepetition)

(* an output that ends on maxRepetition identical tokens, none rejected *)
C22_WitnessAllowed ==
    /\ gen.kind = "rep"
    /\ gen.maxRepetition = 2
    /\ gen.attempts = 0
    /\ TrailingIdentical(gen.sequence, gen.maxRepetition)

(* C23: when every retry of a step has been rejected and the state of the *)
(* current context has transitions, the step still emits a token and      *)
(* generation goes on to the requested length: exhausted retries neither  *)
(* end the generation early nor raise an error.                           *)
C23_ExhaustionStillEmits ==
    (/\ gen.kind = "rep"
     /\ gen.attempts = maxAttempts
     /\ ~NeedsFallback(gen.currentContext))
        => /\ gen.pc = "loop"
           /\ gen.outcome = "running"

----------------------------------------------------------------------------
(* Cycles at any order *)

(* C24: at any order cycle detection moves from a state to its successor  *)
(* state, the context that drops the oldest token and appends the most    *)
(* likely next token, until a state repeats; so a chain trained on a      *)
(* periodic sequence reports a cycle among its context states, at order 2 *)
(* as at order 1.                                                         *)
C24_CyclesAtAnyOrder ==
    (gen.kind = "findCycles" /\ TrainedOnCycle)
        => /\ Len(gen.result.cycles) >= 1
           /\ \A k \in DOMAIN gen.result.cycles :
                 AsSet(gen.result.cycles[k].states) \subseteq StateIds(states)

----------------------------------------------------------------------------
(* Bottlenecks *)

(* the label and the severity of the memory class *)
MemoryClass == [bottleneck |-> "memory usage", severity |-> "high"]

(* C25: analyzeBottlenecks returns one label with its severity, chosen by *)
(* thresholds on the state count, the average transitions per state and   *)
(* the estimated memory (200 bytes per state and 50 per transition): a    *)
(* chain of more than 50 MB with at most 100000 states and at most 50     *)
(* transitions per state is in the memory class with severity high, and a *)
(* chain below every threshold, the empty chain included, is "none" with  *)
(* severity low.                                                          *)
C25_BottleneckClasses ==
    gen.kind = "analyzeBottlenecks" =>
        LET found == gen.result.bottlenecks
            bytes == 200 * found.stateCount + 50 * found.totalTransitions
            dense == found.totalTransitions > 50 * found.stateCount
            heavy == bytes > 50 * 1024 * 1024
        IN  /\ (heavy /\ found.stateCount <= 100000 /\ ~dense)
                 => /\ found.bottleneck = MemoryClass.bottleneck
                    /\ found.severity = MemoryClass.severity
            /\ (~heavy /\ found.stateCount <= 10000 /\ ~dense)
                 => /\ found.bottleneck = "none"
                    /\ found.severity = "low"

----------------------------------------------------------------------------
(* Empty append *)

(* C26: trainAppend([]) is a no-op on the learned model: on a normalized  *)
(* chain, whatever the smoothing, it leaves the transition probabilities  *)
(* of every state as they were, however often it is called.               *)
C26_EmptyAppendIsNoOp ==
    [][history' = Append(history, [op |-> "trainAppend", sequences |-> <<>>])
          => states' = states]_vars

----------------------------------------------------------------------------
(* Ownership of the training data *)

(* C27: the chain owns the training data it retains: trainAppend(B) after *)
(* train(A) leaves the array the caller passed to train as it was, so     *)
(* nothing else that holds that array, a second chain trained with it     *)
(* included, sees the appended sequences.                                 *)
C27_CallerArrayUntouched ==
    ( /\ Len(history) = 2
      /\ history[1].op = "train"
      /\ history[2].op = "trainAppend" )
    => callerData = history[1].sequences

----------------------------------------------------------------------------
(* States and retained data *)

(* C28: after any train, trainAppend and reset calls a chain that has a   *)
(* state also retains a training sequence, so generate(length > 0)        *)
(* without a start context does not fail for lack of training data on a   *)
(* chain that has learned states.                                         *)
C28_StatesImplyTrainingData ==
    /\ Len(states) > 0 => Len(trainingData) > 0
    /\ (Finished /\ gen.kind = "steps" /\ ~gen.supplied /\ gen.length > 0
        /\ Len(states) > 0)
          => gen.outcome # "no-training-data"

----------------------------------------------------------------------------
(* Start contexts *)

(* every retained training sequence is longer than the order and has no   *)
(* empty token                                                            *)
SequencesLongerThanOrder ==
    /\ Len(trainingData) > 0
    /\ \A n \in DOMAIN trainingData :
          /\ Len(trainingData[n]) > order
          /\ "" \notin AsSet(trainingData[n])

(* the tokens are a window of a retained sequence that a token follows *)
FollowedWindow(tokens) ==
    \E n \in DOMAIN trainingData :
        \E i \in 0..(Len(trainingData[n]) - Len(tokens) - 1) :
            SubSeq(trainingData[n], i + 1, i + Len(tokens)) = tokens

(* a call of generateWithSteps that drew its own start context *)
DrewStartContext ==
    /\ gen.kind = "steps"
    /\ ~gen.supplied
    /\ gen.outcome \in {"running", "returned"}

----------------------------------------------------------------------------
(* Step records *)

(* C30: generateWithSteps records one step per emitted token, in the      *)
(* order of emission, with the context key, the candidate distribution,   *)
(* the chosen token and the draw; the steps are as many as the tokens,    *)
(* the k-th step selected the k-th token, and the step numbers increase   *)
(* strictly, whether a step used the state of its context or a fallback.  *)
C30_OneNumberedStepPerToken ==
    gen.kind = "steps"
        => /\ Len(gen.steps) = Len(gen.sequence)
           /\ \A k \in DOMAIN gen.steps :
                 gen.steps[k].selectedElement = gen.sequence[k]
           /\ \A k \in 1..(Len(gen.steps) - 1) :
                 gen.steps[k].step < gen.steps[k + 1].step

====
